---- MODULE Spec2Model ----
(***************************************************************************)
(* Model of the BBC iPlayer plugin (streamlink/plugins/bbciplayer.py).     *)
(*                                                                         *)
(* One resolution (one consumption of the _get_streams generator) is a     *)
(* sequential run.  Every HTTP exchange is one step: the request is        *)
(* appended to `requests`, the server's answer is drawn from a small set,  *)
(* and the code that follows the call is executed up to the next exchange  *)
(* or the next yield.  At a yield the generator is suspended: it goes on   *)
(* only when the consumer asks for the next stream.                        *)
(* Strings the code matches with regular expressions are sequences of      *)
(* one-character strings (URLs) or sequences of tokens (page bodies).      *)
(***************************************************************************)
EXTENDS Integers, Sequences, FiniteSets, TLC

\* bound: connection elements in one media-selector XML response
MaxConn == 2
\* bound: tokens in one page body
MaxBody == 1

\* Python's None, for values that are strings otherwise
None == "None"

(***************************************************************************)
(* url_re: https?://(?:www\.)?bbc.co.uk/iplayer/                           *)
(*           (episode/(?P<episode_id>\w+)|live/(?P<channel_name>\w+))      *)
(* A string is the sequence of its characters' code points (104 is "h").   *)
(* A position is an index into the string; 0 is "no match".                *)
(***************************************************************************)

\* The code points \w matches, as closed ranges.  url_re is a str pattern
\* compiled without re.ASCII, so \w is every character that is alphanumeric
\* in the Unicode database (14.0.0, the one of Python 3.11) and "_".
WordRanges ==
    {
     <<48, 57>>, <<65, 90>>, <<95, 95>>, <<97, 122>>, <<170, 170>>, <<178, 179>>,
     <<181, 181>>, <<185, 186>>, <<188, 190>>, <<192, 214>>, <<216, 246>>, <<248, 705>>,
     <<710, 721>>, <<736, 740>>, <<748, 748>>, <<750, 750>>, <<880, 884>>, <<886, 887>>,
     <<890, 893>>, <<895, 895>>, <<902, 902>>, <<904, 906>>, <<908, 908>>, <<910, 929>>,
     <<931, 1013>>, <<1015, 1153>>, <<1162, 1327>>, <<1329, 1366>>, <<1369, 1369>>, <<1376, 1416>>,
     <<1488, 1514>>, <<1519, 1522>>, <<1568, 1610>>, <<1632, 1641>>, <<1646, 1647>>, <<1649, 1747>>,
     <<1749, 1749>>, <<1765, 1766>>, <<1774, 1788>>, <<1791, 1791>>, <<1808, 1808>>, <<1810, 1839>>,
     <<1869, 1957>>, <<1969, 1969>>, <<1984, 2026>>, <<2036, 2037>>, <<2042, 2042>>, <<2048, 2069>>,
     <<2074, 2074>>, <<2084, 2084>>, <<2088, 2088>>, <<2112, 2136>>, <<2144, 2154>>, <<2160, 2183>>,
     <<2185, 2190>>, <<2208, 2249>>, <<2308, 2361>>, <<2365, 2365>>, <<2384, 2384>>, <<2392, 2401>>,
     <<2406, 2415>>, <<2417, 2432>>, <<2437, 2444>>, <<2447, 2448>>, <<2451, 2472>>, <<2474, 2480>>,
     <<2482, 2482>>, <<2486, 2489>>, <<2493, 2493>>, <<2510, 2510>>, <<2524, 2525>>, <<2527, 2529>>,
     <<2534, 2545>>, <<2548, 2553>>, <<2556, 2556>>, <<2565, 2570>>, <<2575, 2576>>, <<2579, 2600>>,
     <<2602, 2608>>, <<2610, 2611>>, <<2613, 2614>>, <<2616, 2617>>, <<2649, 2652>>, <<2654, 2654>>,
     <<2662, 2671>>, <<2674, 2676>>, <<2693, 2701>>, <<2703, 2705>>, <<2707, 2728>>, <<2730, 2736>>,
     <<2738, 2739>>, <<2741, 2745>>, <<2749, 2749>>, <<2768, 2768>>, <<2784, 2785>>, <<2790, 2799>>,
     <<2809, 2809>>, <<2821, 2828>>, <<2831, 2832>>, <<2835, 2856>>, <<2858, 2864>>, <<2866, 2867>>,
     <<2869, 2873>>, <<2877, 2877>>, <<2908, 2909>>, <<2911, 2913>>, <<2918, 2927>>, <<2929, 2935>>,
     <<2947, 2947>>, <<2949, 2954>>, <<2958, 2960>>, <<2962, 2965>>, <<2969, 2970>>, <<2972, 2972>>,
     <<2974, 2975>>, <<2979, 2980>>, <<2984, 2986>>, <<2990, 3001>>, <<3024, 3024>>, <<3046, 3058>>,
     <<3077, 3084>>, <<3086, 3088>>, <<3090, 3112>>, <<3114, 3129>>, <<3133, 3133>>, <<3160, 3162>>,
     <<3165, 3165>>, <<3168, 3169>>, <<3174, 3183>>, <<3192, 3198>>, <<3200, 3200>>, <<3205, 3212>>,
     <<3214, 3216>>, <<3218, 3240>>, <<3242, 3251>>, <<3253, 3257>>, <<3261, 3261>>, <<3293, 3294>>,
     <<3296, 3297>>, <<3302, 3311>>, <<3313, 3314>>, <<3332, 3340>>, <<3342, 3344>>, <<3346, 3386>>,
     <<3389, 3389>>, <<3406, 3406>>, <<3412, 3414>>, <<3416, 3425>>, <<3430, 3448>>, <<3450, 3455>>,
     <<3461, 3478>>, <<3482, 3505>>, <<3507, 3515>>, <<3517, 3517>>, <<3520, 3526>>, <<3558, 3567>>,
     <<3585, 3632>>, <<3634, 3635>>, <<3648, 3654>>, <<3664, 3673>>, <<3713, 3714>>, <<3716, 3716>>,
     <<3718, 3722>>, <<3724, 3747>>, <<3749, 3749>>, <<3751, 3760>>, <<3762, 3763>>, <<3773, 3773>>,
     <<3776, 3780>>, <<3782, 3782>>, <<3792, 3801>>, <<3804, 3807>>, <<3840, 3840>>, <<3872, 3891>>,
     <<3904, 3911>>, <<3913, 3948>>, <<3976, 3980>>, <<4096, 4138>>, <<4159, 4169>>, <<4176, 4181>>,
     <<4186, 4189>>, <<4193, 4193>>, <<4197, 4198>>, <<4206, 4208>>, <<4213, 4225>>, <<4238, 4238>>,
     <<4240, 4249>>, <<4256, 4293>>, <<4295, 4295>>, <<4301, 4301>>, <<4304, 4346>>, <<4348, 4680>>,
     <<4682, 4685>>, <<4688, 4694>>, <<4696, 4696>>, <<4698, 4701>>, <<4704, 4744>>, <<4746, 4749>>,
     <<4752, 4784>>, <<4786, 4789>>, <<4792, 4798>>, <<4800, 4800>>, <<4802, 4805>>, <<4808, 4822>>,
     <<4824, 4880>>, <<4882, 4885>>, <<4888, 4954>>, <<4969, 4988>>, <<4992, 5007>>, <<5024, 5109>>,
     <<5112, 5117>>, <<5121, 5740>>, <<5743, 5759>>, <<5761, 5786>>, <<5792, 5866>>, <<5870, 5880>>,
     <<5888, 5905>>, <<5919, 5937>>, <<5952, 5969>>, <<5984, 5996>>, <<5998, 6000>>, <<6016, 6067>>,
     <<6103, 6103>>, <<6108, 6108>>, <<6112, 6121>>, <<6128, 6137>>, <<6160, 6169>>, <<6176, 6264>>,
     <<6272, 6276>>, <<6279, 6312>>, <<6314, 6314>>, <<6320, 6389>>, <<6400, 6430>>, <<6470, 6509>>,
     <<6512, 6516>>, <<6528, 6571>>, <<6576, 6601>>, <<6608, 6618>>, <<6656, 6678>>, <<6688, 6740>>,
     <<6784, 6793>>, <<6800, 6809>>, <<6823, 6823>>, <<6917, 6963>>, <<6981, 6988>>, <<6992, 7001>>,
     <<7043, 7072>>, <<7086, 7141>>, <<7168, 7203>>, <<7232, 7241>>, <<7245, 7293>>, <<7296, 7304>>,
     <<7312, 7354>>, <<7357, 7359>>, <<7401, 7404>>, <<7406, 7411>>, <<7413, 7414>>, <<7418, 7418>>,
     <<7424, 7615>>, <<7680, 7957>>, <<7960, 7965>>, <<7968, 8005>>, <<8008, 8013>>, <<8016, 8023>>,
     <<8025, 8025>>, <<8027, 8027>>, <<8029, 8029>>, <<8031, 8061>>, <<8064, 8116>>, <<8118, 8124>>,
     <<8126, 8126>>, <<8130, 8132>>, <<8134, 8140>>, <<8144, 8147>>, <<8150, 8155>>, <<8160, 8172>>,
     <<8178, 8180>>, <<8182, 8188>>, <<8304, 8305>>, <<8308, 8313>>, <<8319, 8329>>, <<8336, 8348>>,
     <<8450, 8450>>, <<8455, 8455>>, <<8458, 8467>>, <<8469, 8469>>, <<8473, 8477>>, <<8484, 8484>>,
     <<8486, 8486>>, <<8488, 8488>>, <<8490, 8493>>, <<8495, 8505>>, <<8508, 8511>>, <<8517, 8521>>,
     <<8526, 8526>>, <<8528, 8585>>, <<9312, 9371>>, <<9450, 9471>>, <<10102, 10131>>, <<11264, 11492>>,
     <<11499, 11502>>, <<11506, 11507>>, <<11517, 11517>>, <<11520, 11557>>, <<11559, 11559>>, <<11565, 11565>>,
     <<11568, 11623>>, <<11631, 11631>>, <<11648, 11670>>, <<11680, 11686>>, <<11688, 11694>>, <<11696, 11702>>,
     <<11704, 11710>>, <<11712, 11718>>, <<11720, 11726>>, <<11728, 11734>>, <<11736, 11742>>, <<11823, 11823>>,
     <<12293, 12295>>, <<12321, 12329>>, <<12337, 12341>>, <<12344, 12348>>, <<12353, 12438>>, <<12445, 12447>>,
     <<12449, 12538>>, <<12540, 12543>>, <<12549, 12591>>, <<12593, 12686>>, <<12690, 12693>>, <<12704, 12735>>,
     <<12784, 12799>>, <<12832, 12841>>, <<12872, 12879>>, <<12881, 12895>>, <<12928, 12937>>, <<12977, 12991>>,
     <<13312, 19903>>, <<19968, 42124>>, <<42192, 42237>>, <<42240, 42508>>, <<42512, 42539>>, <<42560, 42606>>,
     <<42623, 42653>>, <<42656, 42735>>, <<42775, 42783>>, <<42786, 42888>>, <<42891, 42954>>, <<42960, 42961>>,
     <<42963, 42963>>, <<42965, 42969>>, <<42994, 43009>>, <<43011, 43013>>, <<43015, 43018>>, <<43020, 43042>>,
     <<43056, 43061>>, <<43072, 43123>>, <<43138, 43187>>, <<43216, 43225>>, <<43250, 43255>>, <<43259, 43259>>,
     <<43261, 43262>>, <<43264, 43301>>, <<43312, 43334>>, <<43360, 43388>>, <<43396, 43442>>, <<43471, 43481>>,
     <<43488, 43492>>, <<43494, 43518>>, <<43520, 43560>>, <<43584, 43586>>, <<43588, 43595>>, <<43600, 43609>>,
     <<43616, 43638>>, <<43642, 43642>>, <<43646, 43695>>, <<43697, 43697>>, <<43701, 43702>>, <<43705, 43709>>,
     <<43712, 43712>>, <<43714, 43714>>, <<43739, 43741>>, <<43744, 43754>>, <<43762, 43764>>, <<43777, 43782>>,
     <<43785, 43790>>, <<43793, 43798>>, <<43808, 43814>>, <<43816, 43822>>, <<43824, 43866>>, <<43868, 43881>>,
     <<43888, 44002>>, <<44016, 44025>>, <<44032, 55203>>, <<55216, 55238>>, <<55243, 55291>>, <<63744, 64109>>,
     <<64112, 64217>>, <<64256, 64262>>, <<64275, 64279>>, <<64285, 64285>>, <<64287, 64296>>, <<64298, 64310>>,
     <<64312, 64316>>, <<64318, 64318>>, <<64320, 64321>>, <<64323, 64324>>, <<64326, 64433>>, <<64467, 64829>>,
     <<64848, 64911>>, <<64914, 64967>>, <<65008, 65019>>, <<65136, 65140>>, <<65142, 65276>>, <<65296, 65305>>,
     <<65313, 65338>>, <<65345, 65370>>, <<65382, 65470>>, <<65474, 65479>>, <<65482, 65487>>, <<65490, 65495>>,
     <<65498, 65500>>, <<65536, 65547>>, <<65549, 65574>>, <<65576, 65594>>, <<65596, 65597>>, <<65599, 65613>>,
     <<65616, 65629>>, <<65664, 65786>>, <<65799, 65843>>, <<65856, 65912>>, <<65930, 65931>>, <<66176, 66204>>,
     <<66208, 66256>>, <<66273, 66299>>, <<66304, 66339>>, <<66349, 66378>>, <<66384, 66421>>, <<66432, 66461>>,
     <<66464, 66499>>, <<66504, 66511>>, <<66513, 66517>>, <<66560, 66717>>, <<66720, 66729>>, <<66736, 66771>>,
     <<66776, 66811>>, <<66816, 66855>>, <<66864, 66915>>, <<66928, 66938>>, <<66940, 66954>>, <<66956, 66962>>,
     <<66964, 66965>>, <<66967, 66977>>, <<66979, 66993>>, <<66995, 67001>>, <<67003, 67004>>, <<67072, 67382>>,
     <<67392, 67413>>, <<67424, 67431>>, <<67456, 67461>>, <<67463, 67504>>, <<67506, 67514>>, <<67584, 67589>>,
     <<67592, 67592>>, <<67594, 67637>>, <<67639, 67640>>, <<67644, 67644>>, <<67647, 67669>>, <<67672, 67702>>,
     <<67705, 67742>>, <<67751, 67759>>, <<67808, 67826>>, <<67828, 67829>>, <<67835, 67867>>, <<67872, 67897>>,
     <<67968, 68023>>, <<68028, 68047>>, <<68050, 68096>>, <<68112, 68115>>, <<68117, 68119>>, <<68121, 68149>>,
     <<68160, 68168>>, <<68192, 68222>>, <<68224, 68255>>, <<68288, 68295>>, <<68297, 68324>>, <<68331, 68335>>,
     <<68352, 68405>>, <<68416, 68437>>, <<68440, 68466>>, <<68472, 68497>>, <<68521, 68527>>, <<68608, 68680>>,
     <<68736, 68786>>, <<68800, 68850>>, <<68858, 68899>>, <<68912, 68921>>, <<69216, 69246>>, <<69248, 69289>>,
     <<69296, 69297>>, <<69376, 69415>>, <<69424, 69445>>, <<69457, 69460>>, <<69488, 69505>>, <<69552, 69579>>,
     <<69600, 69622>>, <<69635, 69687>>, <<69714, 69743>>, <<69745, 69746>>, <<69749, 69749>>, <<69763, 69807>>,
     <<69840, 69864>>, <<69872, 69881>>, <<69891, 69926>>, <<69942, 69951>>, <<69956, 69956>>, <<69959, 69959>>,
     <<69968, 70002>>, <<70006, 70006>>, <<70019, 70066>>, <<70081, 70084>>, <<70096, 70106>>, <<70108, 70108>>,
     <<70113, 70132>>, <<70144, 70161>>, <<70163, 70187>>, <<70272, 70278>>, <<70280, 70280>>, <<70282, 70285>>,
     <<70287, 70301>>, <<70303, 70312>>, <<70320, 70366>>, <<70384, 70393>>, <<70405, 70412>>, <<70415, 70416>>,
     <<70419, 70440>>, <<70442, 70448>>, <<70450, 70451>>, <<70453, 70457>>, <<70461, 70461>>, <<70480, 70480>>,
     <<70493, 70497>>, <<70656, 70708>>, <<70727, 70730>>, <<70736, 70745>>, <<70751, 70753>>, <<70784, 70831>>,
     <<70852, 70853>>, <<70855, 70855>>, <<70864, 70873>>, <<71040, 71086>>, <<71128, 71131>>, <<71168, 71215>>,
     <<71236, 71236>>, <<71248, 71257>>, <<71296, 71338>>, <<71352, 71352>>, <<71360, 71369>>, <<71424, 71450>>,
     <<71472, 71483>>, <<71488, 71494>>, <<71680, 71723>>, <<71840, 71922>>, <<71935, 71942>>, <<71945, 71945>>,
     <<71948, 71955>>, <<71957, 71958>>, <<71960, 71983>>, <<71999, 71999>>, <<72001, 72001>>, <<72016, 72025>>,
     <<72096, 72103>>, <<72106, 72144>>, <<72161, 72161>>, <<72163, 72163>>, <<72192, 72192>>, <<72203, 72242>>,
     <<72250, 72250>>, <<72272, 72272>>, <<72284, 72329>>, <<72349, 72349>>, <<72368, 72440>>, <<72704, 72712>>,
     <<72714, 72750>>, <<72768, 72768>>, <<72784, 72812>>, <<72818, 72847>>, <<72960, 72966>>, <<72968, 72969>>,
     <<72971, 73008>>, <<73030, 73030>>, <<73040, 73049>>, <<73056, 73061>>, <<73063, 73064>>, <<73066, 73097>>,
     <<73112, 73112>>, <<73120, 73129>>, <<73440, 73458>>, <<73648, 73648>>, <<73664, 73684>>, <<73728, 74649>>,
     <<74752, 74862>>, <<74880, 75075>>, <<77712, 77808>>, <<77824, 78894>>, <<82944, 83526>>, <<92160, 92728>>,
     <<92736, 92766>>, <<92768, 92777>>, <<92784, 92862>>, <<92864, 92873>>, <<92880, 92909>>, <<92928, 92975>>,
     <<92992, 92995>>, <<93008, 93017>>, <<93019, 93025>>, <<93027, 93047>>, <<93053, 93071>>, <<93760, 93846>>,
     <<93952, 94026>>, <<94032, 94032>>, <<94099, 94111>>, <<94176, 94177>>, <<94179, 94179>>, <<94208, 100343>>,
     <<100352, 101589>>, <<101632, 101640>>, <<110576, 110579>>, <<110581, 110587>>, <<110589, 110590>>, <<110592, 110882>>,
     <<110928, 110930>>, <<110948, 110951>>, <<110960, 111355>>, <<113664, 113770>>, <<113776, 113788>>, <<113792, 113800>>,
     <<113808, 113817>>, <<119520, 119539>>, <<119648, 119672>>, <<119808, 119892>>, <<119894, 119964>>, <<119966, 119967>>,
     <<119970, 119970>>, <<119973, 119974>>, <<119977, 119980>>, <<119982, 119993>>, <<119995, 119995>>, <<119997, 120003>>,
     <<120005, 120069>>, <<120071, 120074>>, <<120077, 120084>>, <<120086, 120092>>, <<120094, 120121>>, <<120123, 120126>>,
     <<120128, 120132>>, <<120134, 120134>>, <<120138, 120144>>, <<120146, 120485>>, <<120488, 120512>>, <<120514, 120538>>,
     <<120540, 120570>>, <<120572, 120596>>, <<120598, 120628>>, <<120630, 120654>>, <<120656, 120686>>, <<120688, 120712>>,
     <<120714, 120744>>, <<120746, 120770>>, <<120772, 120779>>, <<120782, 120831>>, <<122624, 122654>>, <<123136, 123180>>,
     <<123191, 123197>>, <<123200, 123209>>, <<123214, 123214>>, <<123536, 123565>>, <<123584, 123627>>, <<123632, 123641>>,
     <<124896, 124902>>, <<124904, 124907>>, <<124909, 124910>>, <<124912, 124926>>, <<124928, 125124>>, <<125127, 125135>>,
     <<125184, 125251>>, <<125259, 125259>>, <<125264, 125273>>, <<126065, 126123>>, <<126125, 126127>>, <<126129, 126132>>,
     <<126209, 126253>>, <<126255, 126269>>, <<126464, 126467>>, <<126469, 126495>>, <<126497, 126498>>, <<126500, 126500>>,
     <<126503, 126503>>, <<126505, 126514>>, <<126516, 126519>>, <<126521, 126521>>, <<126523, 126523>>, <<126530, 126530>>,
     <<126535, 126535>>, <<126537, 126537>>, <<126539, 126539>>, <<126541, 126543>>, <<126545, 126546>>, <<126548, 126548>>,
     <<126551, 126551>>, <<126553, 126553>>, <<126555, 126555>>, <<126557, 126557>>, <<126559, 126559>>, <<126561, 126562>>,
     <<126564, 126564>>, <<126567, 126570>>, <<126572, 126578>>, <<126580, 126583>>, <<126585, 126588>>, <<126590, 126590>>,
     <<126592, 126601>>, <<126603, 126619>>, <<126625, 126627>>, <<126629, 126633>>, <<126635, 126651>>, <<127232, 127244>>,
     <<130032, 130041>>, <<131072, 173791>>, <<173824, 177976>>, <<177984, 178205>>, <<178208, 183969>>, <<183984, 191456>>,
     <<194560, 195101>>, <<196608, 201546>>
    }

\* \w matches the character of code point c
IsWordChar(c) == \E r \in WordRanges : r[1] <= c /\ c <= r[2]

\* the literal lit occurs in s at position i: the position after it, else 0
Lit(s, i, lit) ==
    IF i # 0 /\ i + Len(lit) - 1 <= Len(s)
          /\ \A k \in 1..Len(lit) : s[i + k - 1] = lit[k]
    THEN i + Len(lit)
    ELSE 0

\* (?:lit)? : greedy, the rest of url_re never needs the backtrack
Opt(s, i, lit) ==
    IF Lit(s, i, lit) # 0 THEN Lit(s, i, lit) ELSE i

\* an unescaped "." : any character but a newline (code point 10)
AnyChar(s, i) ==
    IF i # 0 /\ i <= Len(s) /\ s[i] # 10 THEN i + 1 ELSE 0

\* \w+ at position i, greedy: the captured group, <<>> when it does not match
WordRun(s, i) ==
    IF i = 0 \/ i > Len(s) \/ ~IsWordChar(s[i])
    THEN <<>>
    ELSE LET stop == CHOOSE j \in i..Len(s) :
                        /\ \A k \in i..j : IsWordChar(s[k])
                        /\ (j = Len(s) \/ ~IsWordChar(s[j + 1]))
         IN  SubSeq(s, i, stop)

\* position after "https?://(?:www\.)?bbc.co.uk/iplayer/", 0 when no match
UrlPrefix(s) ==
    LET p1 == Lit(s, 1, <<104, 116, 116, 112>>)                    \* http
        p2 == IF p1 = 0 THEN 0 ELSE Opt(s, p1, <<115>>)              \* s?
        p3 == Lit(s, p2, <<58, 47, 47>>)                          \* ://
        p4 == IF p3 = 0 THEN 0 ELSE Opt(s, p3, <<119, 119, 119, 46>>)  \* (?:www\.)?
        p5 == Lit(s, p4, <<98, 98, 99>>)                          \* bbc
        p6 == AnyChar(s, p5)                                         \* .
        p7 == Lit(s, p6, <<99, 111>>)                              \* co
        p8 == AnyChar(s, p7)                                         \* .
        p9 == Lit(s, p8, <<117, 107>>)                             \* uk
    IN  Lit(s, p9, <<47, 105, 112, 108, 97, 121, 101, 114, 47>>)  \* /iplayer/

NoMatch == [matched |-> FALSE, episode_id |-> <<>>, channel_name |-> <<>>]

\* url_re.match(url): the two named groups; an unset group is <<>> (None)
UrlMatch(s) ==
    LET p  == UrlPrefix(s)
        \* episode/
        e  == WordRun(s, Lit(s, p, <<101, 112, 105, 115, 111, 100, 101, 47>>))
        \* live/
        c  == WordRun(s, Lit(s, p, <<108, 105, 118, 101, 47>>))
    IN  IF p = 0 THEN NoMatch
        ELSE IF e # <<>> THEN [matched |-> TRUE, episode_id |-> e, channel_name |-> <<>>]
        ELSE IF c # <<>> THEN [matched |-> TRUE, episode_id |-> <<>>, channel_name |-> c]
        ELSE NoMatch

\* can_handle_url
CanHandleUrl(s) == UrlMatch(s).matched

\* http://www.bbc.co.uk/iplayer/
Base ==
    <<104, 116, 116, 112, 58, 47, 47, 119, 119, 119, 46, 98, 98, 99, 46, 99, 111, 46, 117, 107, 47, 105, 112, 108, 97, 121, 101, 114, 47>>

\* https://bbc.co.uk/iplayer/
SecureBare ==
    <<104, 116, 116, 112, 115, 58, 47, 47, 98, 98, 99, 46, 99, 111, 46, 117, 107, 47, 105, 112, 108, 97, 121, 101, 114, 47>>

\* http://www.bbc.co.uk/iplayer/episode/b07
EpisodeUrl == Base \o <<101, 112, 105, 115, 111, 100, 101, 47, 98, 48, 55>>

\* https://bbc.co.uk/iplayer/live/BBCon followed by code point 233 (e with
\* an acute accent), a word character outside ASCII
LiveUrl == SecureBare \o <<108, 105, 118, 101, 47, 66, 66, 67, 111, 110, 233>>

\* http://www.bbc.co.uk/iplayer/episode/
NoIdUrl == Base \o <<101, 112, 105, 115, 111, 100, 101, 47>>

\* http://www.bbc.co.uk/iplayer/guide
GuideUrl == Base \o <<103, 117, 105, 100, 101>>

\* http://x.org/
ForeignUrl == <<104, 116, 116, 112, 58, 47, 47, 120, 46, 111, 114, 103, 47>>

\* config_url, http://www.bbc.co.uk/idcta/config
ConfigUrl ==
    <<104, 116, 116, 112, 58, 47, 47, 119, 119, 119, 46, 98, 98, 99, 46, 99, 111, 46, 117, 107, 47, 105, 100, 99, 116, 97, 47, 99, 111, 110, 102, 105, 103>>

\* auth_url, https://account.bbc.com/signin; also where a failed sign-in
\* leaves the browser
SigninUrl ==
    <<104, 116, 116, 112, 115, 58, 47, 47, 97, 99, 99, 111, 117, 110, 116, 46, 98, 98, 99, 46, 99, 111, 109, 47, 115, 105, 103, 110, 105, 110>>

Urls == {EpisodeUrl, LiveUrl, NoIdUrl, GuideUrl, ForeignUrl}

(***************************************************************************)
(* Page bodies.  A body is a sequence of tokens; a token is one place      *)
(* where one of the plugin's three page patterns matches, with the text    *)
(* its group captures:                                                     *)
(*   vpid_re            "ident_id"\s*:\s*"(\w+)"                           *)
(*   tvip_re            event_master_brand=(\w+?)&                         *)
(*   account_locals_re  window.bbcAccount.locals\s*=\s*(\{.*?});           *)
(***************************************************************************)
PageTokens ==
    {[key |-> "ident_id", val |-> "p01"],
     [key |-> "ident_id", val |-> "p02"],
     [key |-> "event_master_brand", val |-> "bbc_one"]}

SigninTokens ==
    {[key |-> "bbcAccount.locals", val |-> "locals_full"],
     [key |-> "bbcAccount.locals", val |-> "locals_no_nonce"],
     [key |-> "ident_id", val |-> "p01"]}

BodiesOf(tokens) == UNION {[1..n -> tokens] : n \in 0..MaxBody}

\* bodies of the portal's pages (an episode page, a live page)
PageBodies == BodiesOf(PageTokens)

\* bodies of the sign-in page
SigninBodies == BodiesOf(SigninTokens)

\* the mutant of ReSearch: a default identifier instead of None
ReSearchDefault(key, text) ==
    IF \E i \in 1..Len(text) : text[i].key = key
    THEN text[CHOOSE i \in 1..Len(text) :
                 /\ text[i].key = key
                 /\ \A j \in 1..(i - 1) : text[j].key # key].val
    ELSE "p01"

\* pattern.search(text) followed by "m and m.group(1)": the group of the
\* first match, None when the pattern matches nowhere
ReSearch(key, text) ==
    IF \E i \in 1..Len(text) : text[i].key = key
    THEN text[CHOOSE i \in 1..Len(text) :
                 /\ text[i].key = key
                 /\ \A j \in 1..(i - 1) : text[j].key # key].val
    ELSE None

\* parse_json of the account blob: the keys of the object
AuthDataKeys(blob) ==
    IF blob = "locals_full" THEN {"userOrigin", "ptrt", "nonce"}
    ELSE {"userOrigin", "ptrt"}

\* the keys login() reads from auth_data (a missing one is a KeyError)
AuthDataNeeded == {"userOrigin", "ptrt", "nonce"}

(***************************************************************************)
(* HTTP responses: ok is FALSE for "no response" (None).  A response the    *)
(* plugin holds is always true in "if not page_res" and "res or ...": the  *)
(* HTTP session raises on an error status instead of returning it.         *)
(***************************************************************************)
NoRes == [ok |-> FALSE, url |-> <<>>, text |-> <<>>]

Response(u, body) == [ok |-> TRUE, url |-> u, text |-> body]

(***************************************************************************)
(* config_schema.  A configuration document is what the body of the        *)
(* config response holds: whether it is JSON at all, what signin_url is,   *)
(* whether identity is there, which of its keys, and the type of           *)
(* cookieAgeDays.                                                          *)
(***************************************************************************)
IdentityKeys == {"cookieAgeDays", "accessTokenCookieName", "idSignedInCookieName"}

\* the URLs a configuration document may name as signin_url when asked
\* with ptrt = target: the account site's, or the target itself
SigninHrefs(target) == {SigninUrl, target}

\* signin_url is "absent", "text" (a value that is no URL) or "url", and
\* then signin_href is the URL
ConfigDocs(target) ==
    {d \in [json : BOOLEAN,
            signin_url : {"absent", "text", "url"},
            signin_href : SigninHrefs(target) \cup {<<>>},
            has_identity : BOOLEAN,
            identity : SUBSET IdentityKeys,
            cookie_age_int : BOOLEAN] :
        (d.signin_url = "url") <=> (d.signin_href # <<>>)}

NoDoc == [json |-> FALSE, signin_url |-> "absent", signin_href |-> <<>>,
          has_identity |-> FALSE, identity |-> {}, cookie_age_int |-> FALSE]

\* the mutant of ConfigSchemaValid: signin_url is not required
ConfigSchemaNoSignin(doc) ==
    /\ doc.json
    /\ doc.has_identity
    /\ doc.identity = IdentityKeys
    /\ doc.cookie_age_int

\* the mutant of ConfigSchemaValid: identity is not looked into
ConfigSchemaNoIdentity(doc) ==
    /\ doc.json
    /\ doc.signin_url = "url"
    /\ doc.has_identity

ConfigSchemaValid(doc) ==
    /\ doc.json
    /\ doc.signin_url = "url"
    /\ doc.has_identity
    /\ doc.identity = IdentityKeys
    /\ doc.cookie_age_int

\* http.get(..., schema=s): the validated value, or the validation error
\* raised to the caller
SchemaOutcome(valid) == IF valid THEN "value" ELSE "PluginError"

(***************************************************************************)
(* mediaselector_schema.  An XML response is the sequence of its           *)
(* <connection> elements in document order, each with the kind of the      *)
(* <media> element around it, its transferFormat and its href.             *)
(***************************************************************************)
Hrefs == {"A", "B"}

Connections ==
    [kind : {"video"}, format : {"hls", "hds"}, href : Hrefs]
        \cup {[kind |-> "audio", format |-> "hls", href |-> "A"],
              [kind |-> "video", format |-> "dash", href |-> "A"]}

XmlDocs == {[xml |-> TRUE, conns |-> c] :
              c \in UNION {[1..n -> Connections] : n \in 0..MaxConn}}

NotXml == [xml |-> FALSE, conns |-> <<>>]

\* xml_findall(".//media[@kind='video']//connection[@transferFormat=fmt]")
\* then getattr("attrib"), get("href") on each element found
FindAll(doc, fmt) ==
    LET hit(c) == c.kind = "video" /\ c.format = fmt
        sel    == SelectSeq(doc.conns, hit)
    IN  [i \in 1..Len(sel) |-> sel[i].href]

Range(x) == {x[i] : i \in 1..Len(x)}

\* the mutant of Unique: the list is kept as it is
UniqueKeepAll(x) == {x}

\* list(set(x)): the distinct elements, in an order the set's hashing
\* decides; every order is a possible outcome
Unique(x) ==
    {p \in [1..Cardinality(Range(x)) -> Range(x)] :
        \A i, j \in DOMAIN p : i # j => p[i] # p[j]}

(***************************************************************************)
(* The manifest parsers (HLSStream.parse_variant_playlist and              *)
(* HDSStream.parse_manifest), followed by .items(): the streams of a       *)
(* manifest, by label.                                                     *)
(***************************************************************************)
ManifestLabels(kind, href) ==
    IF kind = "hls" /\ href = "A" THEN <<"720p", "1080p">>
    ELSE IF kind = "hls" THEN <<"480p">>
    ELSE IF href = "A" THEN <<"720p_hds">>
    ELSE <<"480p_hds">>

\* the (label, stream) pairs of one manifest; platform records the request
\* the manifest URL came from
ParseManifest(kind, href, platform) ==
    LET labels == ManifestLabels(kind, href)
    IN  [i \in 1..Len(labels) |->
            [label |-> labels[i], kind |-> kind, href |-> href, platform |-> platform]]

\* the mutant of Platforms: only the first platform is tried
PlatformsFirstOnly == <<"pc">>

Platforms == <<"pc", "iptv-all">>

\* _hash_vpid: the digest is a function of the secret and the identifier
HashVpid(vpid) == <<"sha1", "secret", vpid>>

(***************************************************************************)
(* State of one resolution.                                                *)
(***************************************************************************)
VARIABLES
    url,          \* self.url
    username,     \* options["username"]
    password,     \* options["password"]
    pc,           \* the exchange the generator is about to make
    outcome,      \* "running", "returned" (StopIteration) or "raised"
    exc,          \* the exception that left _get_streams, "" when none
    requests,     \* every HTTP request sent, in order
    log,          \* every logger call, in order
    config_doc,   \* body of the configuration response (login)
    nonce_found,  \* login's m: account_locals_re matched the sign-in page
    post_url,     \* res.url of the auth POST's response, <<>> before it
    page_res,     \* _get_streams' page_res
    ident,        \* the vpid or tvip handed to mediaselector
    platform_i,   \* mediaselector's position in self.platforms
    raw_urls,     \* hrefs found in the current response, before list(set(x))
    hls_todo,     \* stream_urls["hls"] not yet parsed
    hds_todo,     \* stream_urls["hds"] not yet parsed
    items_todo,   \* streams of the manifest being iterated, not yet yielded
    parsed,       \* every call of a manifest parser, in order
    yielded,      \* every (label, stream) pair yielded, in order
    marker,       \* history: "present"/"absent" once the page was scanned
                  \* for the identifier pattern, "none" before
    ms_returned   \* history: the (platform, kind, href) the media-selector
                  \* responses held as video connections of a known format

vars == <<url, username, password, pc, outcome, exc, requests, log, config_doc,
          nonce_found, post_url, page_res, ident, platform_i, raw_urls,
          hls_todo, hds_todo, items_todo, parsed, yielded, marker, ms_returned>>

Usernames == {None, "", "user"}
Passwords == {None, "secret"}

NoRaw == [hls |-> <<>>, hds |-> <<>>]

\* truth value of an option: None and the empty string are false
Truthy(v) == v # None /\ v # ""

\* the mutant of AuthWanted: both credentials are needed
AuthWantedBoth(user, pass) == Truthy(user) /\ Truthy(pass)

\* _get_streams' "if self.get_option('username')"
AuthWanted(user, pass) == Truthy(user)

\* a request: url is the URL asked for (for the media selector, api_url
\* filled with platform, vpid and vpid_hash, which are kept apart)
Req(method, target) ==
    [method |-> method, target |-> target, url |-> <<>>, ptrt |-> <<>>,
     referer |-> <<>>, platform |-> "",
     vpid |-> "", vpid_hash |-> <<>>, username |-> "", password |-> ""]

Log(level, msg) == [level |-> level, msg |-> msg]

Init ==
    /\ url \in Urls
    /\ username \in Usernames
    /\ password \in Passwords
    /\ pc = "start"
    /\ outcome = "running"
    /\ exc = ""
    /\ requests = <<>>
    /\ log = <<>>
    /\ config_doc = NoDoc
    /\ nonce_found = FALSE
    /\ post_url = <<>>
    /\ page_res = NoRes
    /\ ident = None
    /\ platform_i = 0
    /\ raw_urls = NoRaw
    /\ hls_todo = <<>>
    /\ hds_todo = <<>>
    /\ items_todo = <<>>
    /\ parsed = <<>>
    /\ yielded = <<>>
    /\ marker = "none"
    /\ ms_returned = {}

\* the generator ends: return (StopIteration)
Return ==
    /\ pc' = "end"
    /\ outcome' = "returned"
    /\ exc' = ""

\* an exception leaves the generator
Raise(e) ==
    /\ pc' = "end"
    /\ outcome' = "raised"
    /\ exc' = e

Goto(label) ==
    /\ pc' = label
    /\ UNCHANGED <<outcome, exc>>

(***************************************************************************)
(* _get_streams, lines 117-120: the licence notice, then the choice        *)
(* between login and unauthenticated resolution.                           *)
(***************************************************************************)
Start ==
    /\ pc = "start"
    /\ log' = Append(log, Log("info", "tv_licence"))
    /\ IF AuthWanted(username, password) THEN Goto("login_config") ELSE Goto("match")
    /\ UNCHANGED <<url, username, password, requests, config_doc, nonce_found,
                   post_url, page_res, ident, platform_i, raw_urls, hls_todo,
                   hds_todo, parsed, yielded, marker,
                   ms_returned, items_todo>>

(***************************************************************************)
(* login, line 95: GET config_url with ptrt, validated by config_schema.   *)
(***************************************************************************)
LoginGetConfig ==
    /\ pc = "login_config"
    /\ \E doc \in ConfigDocs(url) :
        /\ requests' = Append(requests, [Req("GET", "config") EXCEPT
                                  !.url = ConfigUrl, !.ptrt = url])
        /\ config_doc' = doc
        /\ IF SchemaOutcome(ConfigSchemaValid(doc)) = "value"
           THEN Goto("login_signin")
           ELSE Raise(SchemaOutcome(ConfigSchemaValid(doc)))
    /\ UNCHANGED <<url, username, password, log, nonce_found, post_url, page_res,
                   ident, platform_i, raw_urls, hls_todo, hds_todo, parsed, yielded, marker,
                   ms_returned, items_todo>>

\* the mutant of LoginResult: the response whatever its URL
LoginResultAny(res, ptrt_url) == res

\* login, lines 111-112: the response when it was redirected to ptrt_url,
\* None otherwise
LoginResult(res, ptrt_url) == IF res.url = ptrt_url THEN res ELSE NoRes

(***************************************************************************)
(* login, lines 97-102 and 113-114: GET the URL the configuration holds as *)
(* signin_url, with the input URL as Referer, and look for the account     *)
(* blob.  Without it login returns None and _get_streams (lines    *)
(* 122-124) gives up.  The POST's parameters are read from the blob before *)
(* the POST is sent: a missing key is a KeyError.                          *)
(***************************************************************************)
LoginGetSignin ==
    /\ pc = "login_signin"
    /\ \E body \in SigninBodies :
        LET m == ReSearch("bbcAccount.locals", body)
        IN  /\ requests' = Append(requests, [Req("GET", "signin") EXCEPT
                                       !.url = config_doc.signin_href, !.referer = url])
            /\ nonce_found' = (m # None)
            /\ IF m = None
               THEN /\ log' = log \o <<Log("error", "no_nonce"), Log("error", "check_credentials")>>
                    /\ Return
               ELSE /\ log' = log
                    /\ IF AuthDataNeeded \subseteq AuthDataKeys(m)
                       THEN Goto("login_post")
                       ELSE Raise("KeyError")
    /\ UNCHANGED <<url, username, password, config_doc, post_url, page_res, ident,
                   platform_i, raw_urls, hls_todo, hds_todo, parsed, yielded, marker,
                   ms_returned, items_todo>>

(***************************************************************************)
(* login, lines 103-112, and _get_streams, lines 121-124: the auth POST;   *)
(* the response's final URL decides.                                       *)
(***************************************************************************)
LoginPost ==
    /\ pc = "login_post"
    /\ \E final \in {url, SigninUrl}, body \in PageBodies :
        LET res == LoginResult(Response(final, body), url)
        IN  /\ requests' = Append(requests, [Req("POST", "auth") EXCEPT
                                   !.url = SigninUrl,
                                   !.username = username, !.password = password])
            /\ post_url' = final
            /\ page_res' = res
            /\ IF res.ok
               THEN /\ log' = log
                    /\ Goto("match")
               ELSE /\ log' = Append(log, Log("error", "check_credentials"))
                    /\ Return
    /\ UNCHANGED <<url, username, password, config_doc, nonce_found, ident,
                   platform_i, raw_urls, hls_todo, hds_todo, parsed, yielded, marker,
                   ms_returned, items_todo>>

(***************************************************************************)
(* _get_streams, lines 126-131 and 139-140: match the URL, read the two    *)
(* groups.  m is None for a URL url_re does not match, and m.group is an   *)
(* AttributeError.                                                         *)
(***************************************************************************)
MatchUrl ==
    /\ pc = "match"
    /\ LET m == UrlMatch(url)
       IN  IF ~m.matched
           THEN /\ Raise("AttributeError")
                /\ log' = log
           ELSE IF m.episode_id # <<>>
           THEN /\ Goto("find_vpid")
                /\ log' = Append(log, Log("debug", "loading_episode"))
           ELSE IF m.channel_name # <<>>
           THEN /\ Goto("find_tvip")
                /\ log' = Append(log, Log("debug", "loading_live"))
           ELSE /\ Return
                /\ log' = log
    /\ UNCHANGED <<url, username, password, requests, config_doc, nonce_found,
                   post_url, page_res, ident, platform_i, raw_urls, hls_todo,
                   hds_todo, parsed, yielded, marker,
                   ms_returned, items_todo>>

\* the mutant of UsePrefetched: the page is always fetched
UsePrefetchedNever(res) == FALSE

\* find_vpid, line 72: "res or http.get(url)" takes res when it is there
UsePrefetched(res) == res.ok

(***************************************************************************)
(* mediaselector's loops (lines 83-91) after a step: the next hls URL,     *)
(* else the next hds URL, else the next platform, else the end.            *)
(***************************************************************************)
MsContinue(i, hls, hds) ==
    IF hls # <<>> THEN Goto("ms_hls") /\ platform_i' = i
    ELSE IF hds # <<>> THEN Goto("ms_hds") /\ platform_i' = i
    ELSE IF i < Len(Platforms) THEN Goto("ms_get") /\ platform_i' = i + 1
    ELSE Return /\ platform_i' = i

(***************************************************************************)
(* find_vpid (lines 69-74) and _get_streams, lines 132-138: the vpid is    *)
(* searched in the login response when there is one, in a fresh GET of the *)
(* URL otherwise.                                                          *)
(***************************************************************************)
FindVpid ==
    /\ pc = "find_vpid"
    /\ \E body \in PageBodies :
        LET fetch == ~UsePrefetched(page_res)
            res   == IF fetch THEN Response(url, body) ELSE page_res
            vpid  == ReSearch("ident_id", res.text)
        IN  /\ marker' = IF \E i \in 1..Len(res.text) : res.text[i].key = "ident_id"
                         THEN "present" ELSE "absent"
            /\ requests' = IF fetch
                           THEN Append(requests, [Req("GET", "page") EXCEPT !.url = url])
                           ELSE requests
            /\ IF vpid # None
               THEN /\ log' = log \o <<Log("debug", "looking_for_vpid"), Log("debug", "found_vpid")>>
                    /\ ident' = vpid
                    /\ Goto("ms_get")
                    /\ platform_i' = 1
               ELSE /\ log' = log \o <<Log("debug", "looking_for_vpid"), Log("error", "no_vpid")>>
                    /\ ident' = ident
                    /\ Return
                    /\ platform_i' = platform_i
    /\ UNCHANGED <<url, username, password, config_doc, nonce_found, post_url,
                   page_res, raw_urls, hls_todo, hds_todo, parsed, yielded, ms_returned, items_todo>>

(***************************************************************************)
(* find_tvip (lines 76-80) and _get_streams, lines 141-145: always a GET   *)
(* of the URL; nothing is logged when the tvip is not there.               *)
(***************************************************************************)
FindTvip ==
    /\ pc = "find_tvip"
    /\ \E body \in PageBodies :
        LET tvip == ReSearch("event_master_brand", body)
        IN  /\ marker' = IF \E i \in 1..Len(body) : body[i].key = "event_master_brand"
                         THEN "present" ELSE "absent"
            /\ requests' = Append(requests, [Req("GET", "page") EXCEPT !.url = url])
            /\ IF tvip # None
               THEN /\ log' = log \o <<Log("debug", "looking_for_tvip"), Log("debug", "found_tvip")>>
                    /\ ident' = tvip
                    /\ Goto("ms_get")
                    /\ platform_i' = 1
               ELSE /\ log' = Append(log, Log("debug", "looking_for_tvip"))
                    /\ ident' = ident
                    /\ Return
                    /\ platform_i' = platform_i
    /\ UNCHANGED <<url, username, password, config_doc, nonce_found, post_url,
                   page_res, raw_urls, hls_todo, hds_todo, parsed, yielded, ms_returned, items_todo>>

(***************************************************************************)
(* mediaselector, lines 83-85: the request of the current platform, its    *)
(* response validated by mediaselector_schema.                             *)
(***************************************************************************)
MediaSelectorGet ==
    /\ pc = "ms_get"
    /\ \E doc \in XmlDocs \cup {NotXml} :
        /\ requests' = Append(requests, [Req("GET", "mediaselector") EXCEPT
                                  !.platform = Platforms[platform_i],
                                  !.vpid = ident,
                                  !.vpid_hash = HashVpid(ident)])
        /\ IF SchemaOutcome(doc.xml) = "value"
           THEN \E hls \in Unique(FindAll(doc, "hls")), hds \in Unique(FindAll(doc, "hds")) :
                    /\ raw_urls' = [hls |-> FindAll(doc, "hls"), hds |-> FindAll(doc, "hds")]
                    /\ ms_returned' = ms_returned \cup
                          {[platform |-> Platforms[platform_i], kind |-> c.format, href |-> c.href] :
                              c \in {d \in Range(doc.conns) :
                                        d.kind = "video" /\ d.format \in {"hls", "hds"}}}
                    /\ hls_todo' = hls
                    /\ hds_todo' = hds
                    /\ MsContinue(platform_i, hls, hds)
           ELSE /\ Raise(SchemaOutcome(doc.xml))
                /\ UNCHANGED <<platform_i, raw_urls, hls_todo, hds_todo, ms_returned>>
    /\ UNCHANGED <<url, username, password, log, config_doc, nonce_found, post_url,
                   page_res, ident, parsed, yielded, marker, items_todo>>

\* a parser has returned items: the first is yielded and the generator is
\* suspended there; a manifest without streams lets the loops go on
YieldFirst(items, hls, hds) ==
    IF items # <<>>
    THEN /\ yielded' = Append(yielded, Head(items))
         /\ items_todo' = Tail(items)
         /\ Goto("ms_yield")
         /\ platform_i' = platform_i
    ELSE /\ yielded' = yielded
         /\ items_todo' = <<>>
         /\ MsContinue(platform_i, hls, hds)

(***************************************************************************)
(* mediaselector, lines 86-88: the next hls URL goes to the variant        *)
(* playlist parser; its first stream is yielded.                           *)
(***************************************************************************)
ParseHls ==
    /\ pc = "ms_hls"
    /\ hls_todo # <<>>
    /\ parsed' = Append(parsed, [kind |-> "hls", href |-> Head(hls_todo),
                                 platform |-> Platforms[platform_i]])
    /\ hls_todo' = Tail(hls_todo)
    /\ raw_urls' = NoRaw
    /\ YieldFirst(ParseManifest("hls", Head(hls_todo), Platforms[platform_i]),
                  Tail(hls_todo), hds_todo)
    /\ UNCHANGED <<url, username, password, requests, log, config_doc, nonce_found,
                   post_url, page_res, ident, hds_todo, marker, ms_returned>>

(***************************************************************************)
(* mediaselector, lines 89-91: the next hds URL goes to the manifest       *)
(* parser; its first stream is yielded.                                    *)
(***************************************************************************)
ParseHds ==
    /\ pc = "ms_hds"
    /\ hds_todo # <<>>
    /\ parsed' = Append(parsed, [kind |-> "hds", href |-> Head(hds_todo),
                                 platform |-> Platforms[platform_i]])
    /\ hds_todo' = Tail(hds_todo)
    /\ raw_urls' = NoRaw
    /\ YieldFirst(ParseManifest("hds", Head(hds_todo), Platforms[platform_i]),
                  hls_todo, Tail(hds_todo))
    /\ UNCHANGED <<url, username, password, requests, log, config_doc, nonce_found,
                   post_url, page_res, ident, hls_todo, marker, ms_returned>>

(***************************************************************************)
(* mediaselector, lines 87-88 and 90-91, resumed after a yield: the next   *)
(* stream of the manifest is yielded; after the last one the loops go on   *)
(* (next URL, next platform, or the end of the generator).                 *)
(***************************************************************************)
Resume ==
    /\ pc = "ms_yield"
    /\ IF items_todo # <<>>
       THEN /\ yielded' = Append(yielded, Head(items_todo))
            /\ items_todo' = Tail(items_todo)
            /\ Goto("ms_yield")
            /\ platform_i' = platform_i
       ELSE /\ yielded' = yielded
            /\ items_todo' = items_todo
            /\ MsContinue(platform_i, hls_todo, hds_todo)
    /\ UNCHANGED <<url, username, password, requests, log, config_doc, nonce_found,
                   post_url, page_res, ident, raw_urls, hls_todo, hds_todo, parsed,
                   marker, ms_returned>>

Next ==
    \/ Start
    \/ LoginGetConfig
    \/ LoginGetSignin
    \/ LoginPost
    \/ MatchUrl
    \/ FindVpid
    \/ FindTvip
    \/ MediaSelectorGet
    \/ ParseHls
    \/ ParseHds
    \/ Resume

Spec == Init /\ [][Next]_vars

(***************************************************************************)
(* Vocabulary of the properties.                                           *)
(***************************************************************************)
HasReq(target) == \E i \in DOMAIN requests : requests[i].target = target

CountReq(target) == Cardinality({i \in DOMAIN requests : requests[i].target = target})

IsMsReq(r) == r.target = "mediaselector"

\* the media-selector requests sent so far, in order
MsReqs == SelectSeq(requests, IsMsReq)

LoginTargets == {"config", "signin", "auth"}

ErrorLogged(msg) == \E i \in DOMAIN log : log[i] = Log("error", msg)

NoErrorLogged == \A i \in DOMAIN log : log[i].level # "error"

\* url_re.match of every input URL, computed once
UrlForms == [u \in Urls |-> UrlMatch(u)]

IsEpisode == UrlForms[url].episode_id # <<>>

IsLive == UrlForms[url].channel_name # <<>>

\* the sign-in page was fetched and held no account blob
NonceAbsent == HasReq("signin") /\ ~nonce_found

\* the auth POST was answered from another URL than the target
PostMismatch == HasReq("auth") /\ post_url # url

\* C1: for a URL that matches neither form, whatever the options, no
\* request is ever sent and the resolution ends with an empty result (no
\* exception, nothing yielded).
C1_NoMatchNoNetworkEmpty ==
    ~UrlForms[url].matched =>
        /\ requests = <<>>
        /\ outcome # "raised"
        /\ yielded = <<>>

\* C2: once authentication has failed (no account blob in the sign-in
\* page, or the POST answered from another URL than the target) the
\* resolution is over: it returned, the error was logged, nothing was
\* yielded, the failing exchange is the last request, and no page or
\* media-selector request was sent.
C2_AuthFailureAborts ==
    (NonceAbsent \/ PostMismatch) =>
        /\ pc = "end"
        /\ outcome = "returned"
        /\ ErrorLogged("check_credentials")
        /\ yielded = <<>>
        /\ parsed = <<>>
        /\ ~HasReq("page")
        /\ ~HasReq("mediaselector")
        /\ requests[Len(requests)].target = (IF NonceAbsent THEN "signin" ELSE "auth")
        /\ ~page_res.ok

C2_Witness == PostMismatch /\ nonce_found /\ outcome = "returned"

\* C3: login succeeds (hands a response to _get_streams) exactly when the
\* account blob was found, the POST was sent and its final URL is the
\* target; a login that ended otherwise without an exception returned
\* None, which ends the resolution; no POST is sent without the blob; at
\* most one POST is sent.
C3_LoginSuccessIff ==
    /\ page_res.ok <=> (nonce_found /\ HasReq("auth") /\ post_url = url)
    /\ NonceAbsent => ~HasReq("auth")
    /\ CountReq("auth") <= 1
    /\ (HasReq("signin") /\ pc \notin {"login_post"} /\ outcome # "raised" /\ ~page_res.ok)
          => (outcome = "returned" /\ ~HasReq("page") /\ ~HasReq("mediaselector"))
    /\ page_res.ok => page_res.url = url

C3_Witness == page_res.ok /\ nonce_found /\ HasReq("auth") /\ post_url = url

\* C4: the media-selector requests are sent in the order pc, iptv-all, one
\* each; when the first response has been dealt with (whatever it held,
\* nothing included) the second request is the next step; a resolution
\* that found an identifier and returned has sent both; every stream of
\* the pc response is yielded before every stream of the iptv-all one.
\* (Suspended at a yield, the generator sends nothing.)
C4_BothPlatformsInOrder ==
    /\ Len(MsReqs) <= 2
    /\ \A i \in DOMAIN MsReqs : MsReqs[i].platform = <<"pc", "iptv-all">>[i]
    /\ \A i \in DOMAIN MsReqs : MsReqs[i].vpid = ident
    /\ (Len(MsReqs) = 1 /\ outcome = "running" /\ pc # "ms_yield"
            /\ hls_todo = <<>> /\ hds_todo = <<>>)
          => (pc = "ms_get" /\ platform_i = 2)
    /\ (Len(MsReqs) = 1 /\ pc = "ms_yield") => platform_i = 1
    /\ (outcome = "returned" /\ ident # None) => Len(MsReqs) = 2
    /\ \A i, j \in DOMAIN yielded :
          (i < j) => ~(yielded[i].platform = "iptv-all" /\ yielded[j].platform = "pc")
    /\ \A i \in DOMAIN yielded : yielded[i].platform # "pc" => Len(MsReqs) = 2

\* the first response held no URL and the second platform was still asked
C4_Witness ==
    /\ outcome = "returned"
    /\ Len(MsReqs) = 2
    /\ yielded # <<>>
    /\ \A i \in DOMAIN yielded : yielded[i].platform = "iptv-all"

\* the streams of the manifests in calls, in order
RECURSIVE StreamsOf(_)
StreamsOf(calls) ==
    IF calls = <<>> THEN <<>>
    ELSE ParseManifest(calls[1].kind, calls[1].href, calls[1].platform)
            \o StreamsOf(Tail(calls))

NoDuplicates(x) == \A i, j \in DOMAIN x : i # j => x[i] # x[j]

\* C5: the URL list of one format of one response holds each URL of the
\* response once; a manifest is parsed once for each (platform, format,
\* URL) that a response held, so a URL held by both responses is parsed
\* once per platform and its streams are yielded once per platform; the
\* result is the concatenation of the parsed manifests' streams (those
\* of the manifest being iterated are yielded one at a time).
C5_DedupPerResponseList ==
    /\ NoDuplicates(hls_todo) /\ NoDuplicates(hds_todo)
    /\ raw_urls # NoRaw =>
          /\ Range(hls_todo) = Range(raw_urls.hls)
          /\ Range(hds_todo) = Range(raw_urls.hds)
    /\ NoDuplicates(parsed)
    /\ Range(parsed) \subseteq ms_returned
    /\ (outcome = "returned" /\ ident # None) => Range(parsed) = ms_returned
    /\ yielded \o items_todo = StreamsOf(parsed)

\* the second response names the same hls URL twice, and the first
\* response's manifest of that URL has been parsed already
C5_Witness ==
    /\ platform_i = 2
    /\ Len(raw_urls.hls) = 2
    /\ raw_urls.hls[1] = raw_urls.hls[2]
    /\ hls_todo = <<raw_urls.hls[1]>>
    /\ [kind |-> "hls", href |-> raw_urls.hls[1], platform |-> "pc"] \in Range(parsed)

\* C6: when the identifier pattern is not in the scanned page, the
\* resolution returns without an exception, yields nothing and sends no
\* media-selector request; the episode path logs an error, the
\* live-channel path logs none.
C6_IdentifierAbsent ==
    marker = "absent" =>
        /\ pc = "end"
        /\ outcome = "returned"
        /\ yielded = <<>>
        /\ ~HasReq("mediaselector")
        /\ ident = None
        /\ IsEpisode => ErrorLogged("no_vpid")
        /\ IsLive => NoErrorLogged

C6_Witness == marker = "absent" /\ IsLive /\ page_res.ok

\* C7 as stated: no response that fails its schema (a configuration
\* document with a missing field among them) makes an exception leave the
\* resolver.
C7_SchemaFailureNeverRaises == exc # "PluginError"

\* a field config_schema requires is missing from the document
ConfigFieldMissing ==
    \/ config_doc.signin_url = "absent"
    \/ ~config_doc.has_identity
    \/ config_doc.identity # IdentityKeys

\* C7, amended: a missing identifier ends the resolution with an empty
\* result and no exception; a response that fails its schema is not
\* handled: a configuration response that is not JSON or has a missing
\* field makes the validation error leave the resolver with nothing
\* yielded, and a
\* validation error only ever follows a configuration or media-selector
\* request, which is then the last request, ends the resolution and comes
\* with no error logged by the plugin.
C7_FailureHandling ==
    /\ marker = "absent" => (outcome = "returned" /\ yielded = <<>>)
    /\ (HasReq("config") /\ config_doc.json /\ ConfigFieldMissing) =>
          /\ outcome = "raised"
          /\ exc = "PluginError"
          /\ yielded = <<>>
    /\ (HasReq("config") /\ ~config_doc.json) =>
          /\ outcome = "raised"
          /\ exc = "PluginError"
          /\ yielded = <<>>
    /\ exc = "PluginError" =>
          /\ pc = "end"
          /\ outcome = "raised"
          /\ NoErrorLogged
          /\ requests[Len(requests)].target \in {"config", "mediaselector"}

C7_Witness ==
    /\ HasReq("config")
    /\ config_doc.json
    /\ config_doc.signin_url = "url"
    /\ config_doc.has_identity
    /\ config_doc.identity = {"cookieAgeDays", "accessTokenCookieName"}
    /\ outcome = "raised"

\* C8: a configuration response without signin_url fails validation and
\* ends the resolution there: the configuration request is the only
\* request ever sent (no sign-in GET, no POST, no page or media-selector
\* request).
C8_MissingSigninUrlAborts ==
    (HasReq("config") /\ config_doc.signin_url = "absent") =>
        /\ pc = "end"
        /\ outcome = "raised"
        /\ Len(requests) = 1
        /\ ~HasReq("signin")
        /\ ~HasReq("auth")
        /\ ~HasReq("page")
        /\ ~HasReq("mediaselector")
        /\ yielded = <<>>

C8_Witness ==
    /\ HasReq("config")
    /\ config_doc = [json |-> TRUE, signin_url |-> "absent", signin_href |-> <<>>,
                     has_identity |-> TRUE,
                     identity |-> IdentityKeys, cookie_age_int |-> TRUE]
    /\ outcome = "raised"

\* the requests that GET the input URL, whatever they are sent for
InputUrlGets ==
    Cardinality({i \in DOMAIN requests :
                    requests[i].method = "GET" /\ requests[i].url = url})

\* the sign-in GETs that went to the input URL
SigninGetsOfInput ==
    Cardinality({i \in DOMAIN requests :
                    requests[i].target = "signin" /\ requests[i].url = url})

\* C9 as stated: the input URL is fetched by GET zero times on the episode
\* path after a successful login, once on the episode path without login,
\* once on the live-channel path with or without a login.
C9_InputUrlGetCount ==
    /\ (IsEpisode /\ page_res.ok) => InputUrlGets = 0
    /\ (IsEpisode /\ ~HasReq("config") /\ marker # "none") => InputUrlGets = 1
    /\ (IsLive /\ marker # "none") => InputUrlGets = 1

\* C9, amended: the counts are those of the GETs sent to scan the page for
\* the identifier.  Episode after a successful login: none, the vpid is
\* looked for in the POST response.  Episode without login: one.  Live
\* channel: one, with or without a login before.  The only other GET that
\* can go to the input URL is the login's sign-in GET, sent to the URL the
\* configuration response names: the GETs of the input URL are the page
\* GETs plus that one when the configuration names the input URL.
C9_PageGetCount ==
    /\ CountReq("page") <= 1
    /\ \A i \in DOMAIN requests : requests[i].target = "page" => requests[i].url = url
    /\ (IsEpisode /\ page_res.ok) => CountReq("page") = 0
    /\ (IsEpisode /\ page_res.ok /\ marker # "none") =>
          (marker = "present" <=>
              \E i \in 1..Len(page_res.text) : page_res.text[i].key = "ident_id")
    /\ (IsEpisode /\ ~page_res.ok /\ marker # "none") => CountReq("page") = 1
    /\ (IsLive /\ marker # "none") => CountReq("page") = 1
    /\ marker = "none" => CountReq("page") = 0
    /\ \A i \in DOMAIN requests :
          requests[i].target = "signin" => requests[i].url = config_doc.signin_href
    /\ SigninGetsOfInput = (IF HasReq("signin") /\ config_doc.signin_href = url THEN 1 ELSE 0)
    /\ InputUrlGets = CountReq("page") + SigninGetsOfInput

\* the episode page after a login whose sign-in GET went to the input URL:
\* no page GET, one GET of the input URL
C9_Witness ==
    /\ IsEpisode
    /\ page_res.ok
    /\ marker = "present"
    /\ HasReq("mediaselector")
    /\ CountReq("page") = 0
    /\ config_doc.signin_href = url
    /\ InputUrlGets = 1

\* C10: the login requests are sent exactly when username is set and not
\* empty, whatever password is; without it no configuration, sign-in or
\* auth request is ever sent and the resolution goes on to the URL; with
\* it the configuration request is the first request, and every login
\* request precedes every page or media-selector request.
C10_AuthIffUsername ==
    /\ username \in {None, ""} => \A i \in DOMAIN requests : requests[i].target \notin LoginTargets
    /\ (username \in {None, ""} /\ pc # "start") => pc \notin {"login_config", "login_signin", "login_post"}
    /\ (username \notin {None, ""} /\ pc \notin {"start", "login_config"}) => HasReq("config")
    /\ (username \notin {None, ""} /\ requests # <<>>) => requests[1].target = "config"
    /\ \A i, j \in DOMAIN requests :
          (i < j) => ~(requests[i].target \notin LoginTargets /\ requests[j].target \in LoginTargets)
    /\ \A i \in DOMAIN requests :
          requests[i].target = "auth" =>
              (requests[i].username = username /\ requests[i].password = password)

\* a username and no password: the login ran, to the POST
C10_Witness == username = "user" /\ password = None /\ HasReq("auth") /\ HasReq("mediaselector")

====
